---- MODULE Spec2Model ----
(***************************************************************************)
(* A model of gtd.py: the construction of a ProjectList from configured    *)
(* source paths (directory scans and project-list-file scans), the         *)
(* extraction of next actions from outline trees, and the queries on the   *)
(* finished list (n_actions, get_actionless_projects, print).              *)
(*                                                                         *)
(* Text (paths, names, headings) is a sequence of code points, so that     *)
(* os.path.join, basename, splitext and the ordering used by sorted() are  *)
(* computed rather than assumed.  An outline node is a record              *)
(*   [heading, todo, tags, children]                                       *)
(* as exposed by orgparse.  A reference to a Project object held in        *)
(* self.projects is the object's position in that list.                    *)
(***************************************************************************)
EXTENDS Integers, Sequences, FiniteSets

VARIABLES
    paths,      \* the sequence of source paths given to ProjectList
    fs,         \* the filesystem the run reads (never written)
    pc,         \* "scan": inside __init__'s loop; "ready": constructed;
                \* "failed": an exception left __init__
    idx,        \* position in paths of the path the loop handles next
    projects,   \* self.projects: sequence of [name, actions]
    origin,     \* for each project, the argument its constructor was given
    loads,      \* the paths handed to orgparse.load so far, in order
    err,        \* the exception that left __init__ (type "none" if none)
    ret         \* the last query called on the constructed list, with its result

vars == <<paths, fs, pc, idx, projects, origin, loads, err, ret>>

----------------------------------------------------------------------------
(* Bounds of the model.                                                    *)

MaxPaths == 2      \* configured source paths
MaxEntries == 3    \* entries of a scanned directory
MaxProjects == 2   \* children of a project-list file's container
MaxSections == 2   \* children of a project root
MaxItems == 2      \* children of a section
MaxShuffle == 3    \* longest project list print is asked to randomize

----------------------------------------------------------------------------
(* Text.                                                                   *)

Sep == <<47>>                                   \* "/"
Dot == <<46>>                                   \* "."
OrgExt == <<46, 111, 114, 103>>                 \* ".org"
PathMarker == <<32, 128448>>                    \* " \U0001F5C0"
NodeMarker == <<32, 8727>>                      \* " *" (U+2217)
ActionsHeading == <<65, 99, 116, 105, 111, 110, 115>>   \* "Actions"

Last(s) == s[Len(s)]

SeqsUpTo(S, n) == UNION {[1..k -> S] : k \in 0..n}

Range(s) == {s[i] : i \in 1..Len(s)}

\* Python's str comparison: code point by code point, a proper prefix first.
LexLess(a, b) ==
    \E k \in 0..Len(a) :
        /\ k <= Len(b)
        /\ \A i \in 1..k : a[i] = b[i]
        /\ \/ k = Len(a) /\ k < Len(b)
           \/ k < Len(a) /\ k < Len(b) /\ a[k + 1] < b[k + 1]

\* os.path.join(a, b) for a relative b.
Join(a, b) ==
    IF a = <<>> \/ Last(a) = Sep[1] THEN a \o b ELSE a \o Sep \o b

\* Positions of the separators of p.
SepPositions(p) == {i \in 1..Len(p) : p[i] = Sep[1]}

Max(S) == CHOOSE x \in S : \A y \in S : y <= x

\* os.path.basename(p): what follows the last separator.
Basename(p) ==
    IF SepPositions(p) = {} THEN p
    ELSE SubSeq(p, Max(SepPositions(p)) + 1, Len(p))

\* os.path.splitext(p)[0] for a p without separators: cut at the last dot,
\* unless only dots precede it.
SplitextRoot(p) ==
    LET dots == {i \in 1..Len(p) : p[i] = Dot[1]}
    IN  IF dots = {} THEN p
        ELSE LET d == Max(dots)
             IN  IF \E i \in 1..(d - 1) : p[i] # Dot[1]
                 THEN SubSeq(p, 1, d - 1)
                 ELSE p

\* A mutant of Sorted: the list as it came.
Unsorted(s) == s

\* sorted(list of str): insertion of each element in turn into a sorted prefix.
RECURSIVE Insert(_, _)
Insert(x, s) ==
    IF s = <<>> THEN <<x>>
    ELSE IF LexLess(x, Head(s)) THEN <<x>> \o s
    ELSE <<Head(s)>> \o Insert(x, Tail(s))

RECURSIVE Sorted(_)
Sorted(s) == IF s = <<>> THEN <<>> ELSE Insert(Head(s), Sorted(Tail(s)))

----------------------------------------------------------------------------
(* Outline nodes, as orgparse exposes them.  No heading of the model holds *)
(* link markup, so a node's raw heading and its plain heading agree.       *)

NoTodo == "None"

Node(h, t, tg, c) == [heading |-> h, todo |-> t, tags |-> tg, children |-> c]

\* The root of a parsed file: no heading, no keyword.
RootNode(c) == Node(<<>>, NoTodo, {}, c)

----------------------------------------------------------------------------
(* The filesystem.  One configured path, DirPath, names a directory and    *)
(* one, FilePath, does not.  fs is                                         *)
(*   [listable : whether os.listdir(DirPath) succeeds,                     *)
(*    entries  : os.listdir(DirPath) in the order the platform gives it,   *)
(*               each [name, isdir, org] with org = [exists, root] the     *)
(*               file <name>/<name>.org,                                   *)
(*    file     : [exists, root], the file at FilePath].                    *)

DirPath == <<100>>                              \* "d"
FilePath == <<102>>                             \* "f"

\* The path of the file that holds the outline of entry e of DirPath.
EntryOrgPath(e) == Join(Join(DirPath, e.name), e.name \o OrgExt)

\* os.path.isdir(path)
IsDir(path) ==
    \/ path = DirPath
    \/ \E i \in 1..Len(fs.entries) :
          fs.entries[i].isdir /\ path = Join(DirPath, fs.entries[i].name)

\* os.path.isfile(path)
IsFile(path) ==
    \/ path = FilePath /\ fs.file.exists
    \/ \E i \in 1..Len(fs.entries) :
          /\ fs.entries[i].isdir
          /\ fs.entries[i].org.exists
          /\ path = EntryOrgPath(fs.entries[i])

\* orgparse.load(path), for a path that IsFile: the root of its outline.
Load(path) ==
    IF path = FilePath THEN fs.file.root
    ELSE LET i == CHOOSE i \in 1..Len(fs.entries) :
                      /\ fs.entries[i].isdir
                      /\ fs.entries[i].org.exists
                      /\ path = EntryOrgPath(fs.entries[i])
         IN  fs.entries[i].org.root

\* Exceptions: an OSError carries the file name it failed on, an IndexError
\* carries none.
NoError == [type |-> "none", filename |-> <<>>]
OSError(path) == [type |-> "OSError", filename |-> path]
IndexError == [type |-> "IndexError", filename |-> <<>>]

----------------------------------------------------------------------------
(* Project.                                                                *)

\* Project._find_actions, a mutant: the first "Actions" child that has a
\* NEXT child.
RECURSIVE FindActionsSkippingEmptyFrom(_, _)
FindActionsSkippingEmptyFrom(node, i) ==
    IF i > Len(node.children) THEN <<>>
    ELSE LET found == SelectSeq(node.children[i].children,
                                LAMBDA n : n.todo = "NEXT")
         IN  IF node.children[i].heading = ActionsHeading /\ found # <<>>
             THEN found
             ELSE FindActionsSkippingEmptyFrom(node, i + 1)

FindActionsSkippingEmpty(node) == FindActionsSkippingEmptyFrom(node, 1)

\* The loop of Project._find_actions from child i on.
RECURSIVE FindActionsFrom(_, _)
FindActionsFrom(node, i) ==
    IF i > Len(node.children) THEN <<>>
    ELSE IF node.children[i].heading = ActionsHeading
         THEN SelectSeq(node.children[i].children, LAMBDA n : n.todo = "NEXT")
         ELSE FindActionsFrom(node, i + 1)

\* Project._find_actions(node)
FindActions(node) == FindActionsFrom(node, 1)

\* Project.__init__ given a str: the project, and the paths it loaded.
ProjectFromPath(path) ==
    [project |->
        [name |-> SplitextRoot(Basename(path)) \o PathMarker,
         actions |-> IF IsFile(path) THEN FindActions(Load(path)) ELSE <<>>],
     loaded |-> IF IsFile(path) THEN <<path>> ELSE <<>>]

\* Project.__init__ given a node.
ProjectFromNode(node) ==
    [name |-> node.heading \o NodeMarker, actions |-> FindActions(node)]

\* Project.print(tag, with_actions): the lines written.  tag is <<>> for None.
RECURSIVE ActionLines(_, _)
ActionLines(actions, tag) ==
    IF actions = <<>> THEN <<>>
    ELSE (IF tag = <<>> \/ tag[1] \in Head(actions).tags
          THEN <<[style |-> "action", text |-> Head(actions).heading]>>
          ELSE <<>>)
         \o ActionLines(Tail(actions), tag)

ProjectPrint(p, tag, with_actions) ==
    IF with_actions
    THEN <<[style |-> "project", text |-> p.name]>>
         \o (IF p.actions # <<>>
             THEN ActionLines(p.actions, tag)
             ELSE <<[style |-> "warning", text |-> <<>>]>>)
    ELSE <<[style |-> IF p.actions # <<>> THEN "project" ELSE "projectWarning",
            text |-> p.name]>>

----------------------------------------------------------------------------
(* ProjectList.                                                            *)

RECURSIVE Flatten(_)
Flatten(ss) == IF ss = <<>> THEN <<>> ELSE Head(ss) \o Flatten(Tail(ss))

\* A mutant of AppendAll: new projects go to the front.
PrependAll(list, new) == new \o list

\* for x in new: list.append(x)
AppendAll(list, new) == list \o new

\* What a scan that returned normally did.
Scanned(ps, os, ls) ==
    [raised |-> FALSE, err |-> NoError, projects |-> ps, origin |-> os,
     loads |-> ls]

\* What a scan that raised did: it appended nothing.
Raised(e, ls) ==
    [raised |-> TRUE, err |-> e, projects |-> <<>>, origin |-> <<>>,
     loads |-> ls]

\* ProjectList.scan_project_list(path)
ScanProjectList(path) ==
    IF ~IsFile(path) THEN Raised(OSError(path), <<path>>)
    ELSE LET project_lists == Load(path).children
         IN  IF project_lists = <<>> THEN Raised(IndexError, <<path>>)
             ELSE LET current_projects == project_lists[1]
                      n == Len(current_projects.children)
                  IN  Scanned(
                        [i \in 1..n |->
                            ProjectFromNode(current_projects.children[i])],
                        [i \in 1..n |->
                            [mode |-> "node", path |-> path, index |-> i]],
                        <<path>>)

\* ProjectList.scan_directory(root_path)
ScanDirectory(root_path) ==
    IF ~fs.listable THEN Raised(OSError(root_path), <<>>)
    ELSE LET listing == [i \in 1..Len(fs.entries) |-> fs.entries[i].name]
             kept == SelectSeq(listing,
                               LAMBDA entry : IsDir(Join(root_path, entry)))
             subdirs == [i \in 1..Len(kept) |-> Join(root_path, kept[i])]
             org_filenames ==
                 Sorted([i \in 1..Len(subdirs) |->
                            Join(subdirs[i], Basename(subdirs[i]) \o OrgExt)])
             n == Len(org_filenames)
             built == [i \in 1..n |-> ProjectFromPath(org_filenames[i])]
         IN  Scanned(
                [i \in 1..n |-> built[i].project],
                [i \in 1..n |->
                    [mode |-> "path", path |-> org_filenames[i], index |-> 0]],
                Flatten([i \in 1..n |-> built[i].loaded]))

\* One turn of the loop of ProjectList.__init__, r being what the scan did.
LoopTurn(r) ==
    /\ loads' = loads \o r.loads
    /\ IF r.raised
       THEN /\ pc' = "failed"
            /\ err' = r.err
            /\ UNCHANGED <<idx, projects, origin>>
       ELSE /\ projects' = AppendAll(projects, r.projects)
            /\ origin' = AppendAll(origin, r.origin)
            /\ idx' = idx + 1
            /\ pc' = IF idx = Len(paths) THEN "ready" ELSE "scan"
            /\ err' = err
    /\ UNCHANGED <<paths, fs, ret>>

\* __init__'s loop meets a path that names a directory.
ScanDirectoryStep ==
    /\ pc = "scan"
    /\ IsDir(paths[idx])
    /\ LoopTurn(ScanDirectory(paths[idx]))

\* __init__'s loop meets any other path.
ScanProjectListStep ==
    /\ pc = "scan"
    /\ ~IsDir(paths[idx])
    /\ LoopTurn(ScanProjectList(paths[idx]))

\* No call on the constructed list is in progress.
NoCall == [op |-> "none"]

\* reduce(lambda total, project: total + len(project.actions), ps, 0)
RECURSIVE ReduceActions(_, _, _)
ReduceActions(ps, i, total) ==
    IF i > Len(ps) THEN total
    ELSE ReduceActions(ps, i + 1, total + Len(ps[i].actions))

\* ProjectList.n_actions()
NActions ==
    /\ pc = "ready"
    /\ ret = NoCall
    /\ ret' = [op |-> "n_actions", value |-> ReduceActions(projects, 1, 0)]
    /\ UNCHANGED <<paths, fs, pc, idx, projects, origin, loads, err>>

\* A mutant of ActionlessRefs: the projects that do have actions.
RECURSIVE ActionfulRefs(_, _)
ActionfulRefs(ps, i) ==
    IF i > Len(ps) THEN <<>>
    ELSE (IF Len(ps[i].actions) # 0 THEN <<i>> ELSE <<>>)
         \o ActionfulRefs(ps, i + 1)

\* filter(lambda p: len(p.actions) == 0, ps) from position i on, as references.
RECURSIVE ActionlessRefs(_, _)
ActionlessRefs(ps, i) ==
    IF i > Len(ps) THEN <<>>
    ELSE (IF Len(ps[i].actions) = 0 THEN <<i>> ELSE <<>>)
         \o ActionlessRefs(ps, i + 1)

\* ProjectList.get_actionless_projects()
GetActionlessProjects ==
    /\ pc = "ready"
    /\ ret = NoCall
    /\ ret' = [op |-> "actionless", value |-> ActionlessRefs(projects, 1)]
    /\ UNCHANGED <<paths, fs, pc, idx, projects, origin, loads, err>>

\* A mutant of RandomSample: n draws with replacement (random.choices).
RandomChoices(n) == [1..n -> 1..n]

\* random.sample(list, len(list)) for a list of n: the orders it may return.
RandomSample(n) ==
    {s \in [1..n -> 1..n] : \A i, j \in 1..n : s[i] = s[j] => i = j}

TagArgs == {<<>>, <<"work">>}

\* ProjectList.print(randomize, tag, with_actions)
PrintList ==
    /\ pc = "ready"
    /\ ret = NoCall
    /\ \E randomize \in BOOLEAN, tag \in TagArgs, with_actions \in BOOLEAN :
         /\ randomize => Len(projects) <= MaxShuffle
         /\ \E order \in (IF randomize THEN RandomSample(Len(projects))
                          ELSE {[i \in 1..Len(projects) |-> i]}) :
               ret' = [op |-> "print",
                       randomize |-> randomize,
                       shown |-> order,
                       out |-> Flatten([i \in 1..Len(order) |->
                                  ProjectPrint(projects[order[i]], tag,
                                               with_actions)])]
    /\ UNCHANGED <<paths, fs, pc, idx, projects, origin, loads, err>>

\* The caller has taken the result of its call; the list is as it was.
Return ==
    /\ pc = "ready"
    /\ ret # NoCall
    /\ ret' = NoCall
    /\ UNCHANGED <<paths, fs, pc, idx, projects, origin, loads, err>>

----------------------------------------------------------------------------
(* The inputs the specifications draw from.                                *)

Text_a == <<97>>                                \* "a"
Text_b == <<98>>                                \* "b"
Text_aDash == <<97, 45>>                        \* "a-"
Text_aDotB == <<97, 46, 98>>                    \* "a.b"
Text_dots == <<46, 46, 46>>                     \* "..."
Text_notes == <<78, 111, 116, 101, 115>>        \* "Notes"
Text_actions == <<97, 99, 116, 105, 111, 110, 115>>     \* "actions"
Text_someday == <<83, 111, 109, 101, 100, 97, 121>>     \* "Someday"
Text_current == <<67, 117, 114, 114, 101, 110, 116>>    \* "Current"

\* Items: two NEXT items, one of them tagged, and a WAIT item that holds a
\* nested "Actions" heading with a NEXT item of its own.
NextX == Node(<<120>>, "NEXT", {"work"}, <<>>)
NextY == Node(<<121>>, "NEXT", {}, <<>>)
DeepActions ==
    Node(ActionsHeading, NoTodo, {}, <<Node(<<113>>, "NEXT", {}, <<>>)>>)
WaitZ == Node(<<122>>, "WAIT", {}, <<DeepActions>>)
PlainW == Node(<<119>>, NoTodo, {"work"}, <<>>)

Items == {NextX, NextY, WaitZ, PlainW}

\* Sections: "Actions" with any items; "actions" holding a NEXT item; "Notes"
\* holding a nested "Actions".
Sections ==
    {Node(ActionsHeading, NoTodo, {}, c) : c \in SeqsUpTo(Items, MaxItems)}
    \cup {Node(Text_actions, NoTodo, {}, <<NextX>>),
          Node(Text_notes, NoTodo, {}, <<DeepActions>>)}

\* The children a project root may have.
ProjectChildren == SeqsUpTo(Sections, MaxSections)

\* A few of them, for the specifications that vary the sources instead.
WithActions == <<Node(ActionsHeading, NoTodo, {}, <<NextX, WaitZ, NextY>>)>>
WithoutNext == <<Node(ActionsHeading, NoTodo, {}, <<WaitZ>>)>>
WithoutActions == <<Node(Text_notes, NoTodo, {}, <<DeepActions>>)>>

NoFile == [exists |-> FALSE, root |-> RootNode(<<>>)]
FileOf(c) == [exists |-> TRUE, root |-> RootNode(c)]

\* The directories whose entries are named from names, each a plain file or
\* a directory whose .org file is missing or one of orgs.
Entries(names, orgs) ==
    {[name |-> n, isdir |-> FALSE, org |-> NoFile] : n \in names}
    \cup {[name |-> n, isdir |-> TRUE, org |-> o] :
             n \in names, o \in {NoFile} \cup orgs}

Listings(names, orgs) ==
    {l \in SeqsUpTo(Entries(names, orgs), MaxEntries) :
        \A i, j \in 1..Len(l) : l[i].name = l[j].name => i = j}

\* The project-list files: unreadable, or a root with no child, or a root
\* whose first child is a container of project nodes, alone or followed by a
\* second container.
Container(h, ps) == Node(h, NoTodo, {}, ps)

ListFiles(projectNodes) ==
    {NoFile, FileOf(<<>>)}
    \cup {FileOf(<<Container(Text_current, ps)>>) :
             ps \in SeqsUpTo(projectNodes, MaxProjects)}
    \cup {FileOf(<<Container(Text_current, ps),
                   Container(Text_someday,
                             <<Node(<<83>>, NoTodo, {}, WithActions)>>)>>) :
             ps \in SeqsUpTo(projectNodes, MaxProjects)}

ProjectNodes ==
    {Node(<<80>>, NoTodo, {}, WithActions),
     Node(<<81>>, NoTodo, {}, WithoutNext),
     Node(<<82>>, NoTodo, {}, WithoutActions)}

\* The state in which ProjectList.__init__ enters its loop.
Start ==
    /\ pc = IF paths = <<>> THEN "ready" ELSE "scan"
    /\ idx = 1
    /\ projects = <<>>
    /\ origin = <<>>
    /\ loads = <<>>
    /\ err = NoError
    /\ ret = NoCall

----------------------------------------------------------------------------
(* Spec: any list of sources, over small directories and project lists.    *)

Init ==
    /\ paths \in SeqsUpTo({DirPath, FilePath}, MaxPaths)
    /\ \E listable \in BOOLEAN :
       \E entries \in (IF listable
                       THEN Listings({Text_a, Text_b}, {FileOf(WithActions)})
                       ELSE {<<>>}) :
       \E file \in ListFiles(ProjectNodes) :
          fs = [listable |-> listable, entries |-> entries, file |-> file]
    /\ Start

Next ==
    \/ ScanDirectoryStep
    \/ ScanProjectListStep
    \/ NActions
    \/ GetActionlessProjects
    \/ PrintList
    \/ Return

Spec == Init /\ [][Next]_vars

(* SpecDir: one directory scan, over the names and listing orders.         *)

InitDir ==
    /\ paths = <<DirPath>>
    /\ \E listable \in BOOLEAN :
       \E entries \in (IF listable
                       THEN Listings({Text_a, Text_b, Text_aDash, Text_aDotB,
                                      Text_dots},
                                     {FileOf(WithActions)})
                       ELSE {<<>>}) :
          fs = [listable |-> listable, entries |-> entries, file |-> NoFile]
    /\ Start

NextDir == ScanDirectoryStep

SpecDir == InitDir /\ [][NextDir]_vars

(* SpecTree: one project, from a file of a directory or from a node of a   *)
(* project list, over the outlines a project may have.                     *)

InitTree ==
    /\ paths \in {<<DirPath>>, <<FilePath>>}
    /\ \E c \in ProjectChildren :
          fs = IF paths = <<DirPath>>
               THEN [listable |-> TRUE,
                     entries |-> <<[name |-> Text_a, isdir |-> TRUE,
                                    org |-> FileOf(c)]>>,
                     file |-> NoFile]
               ELSE [listable |-> TRUE,
                     entries |-> <<>>,
                     file |-> FileOf(<<Container(Text_current,
                                          <<Node(<<80>>, NoTodo, {}, c)>>)>>)]
    /\ Start

NextTree ==
    \/ ScanDirectoryStep
    \/ ScanProjectListStep

SpecTree == InitTree /\ [][NextTree]_vars

----------------------------------------------------------------------------
(* What the properties below speak of.                                     *)

Min(S) == CHOOSE x \in S : \A y \in S : x <= y

\* The elements of s at the positions K, in the order of s.
SubseqAt(s, K) ==
    [j \in 1..Cardinality(K) |->
        s[CHOOSE k \in K : Cardinality({m \in K : m <= k}) = j]]

\* The positions K themselves, ascending.
Ascending(K) ==
    [j \in 1..Cardinality(K) |->
        CHOOSE k \in K : Cardinality({m \in K : m <= k}) = j]

\* What the scan of a configured path does.
ScanOf(path) ==
    IF IsDir(path) THEN ScanDirectory(path) ELSE ScanProjectList(path)

\* The outline a project was built from: the root of its file, or its node
\* of a project list.
HasSourceNode(o) == o.mode = "node" \/ IsFile(o.path)

SourceNode(o) ==
    IF o.mode = "path" THEN Load(o.path)
    ELSE Load(o.path).children[1].children[o.index]

\* The immediate children of node headed exactly "Actions".
ActionsChildren(node) ==
    {i \in 1..Len(node.children) : node.children[i].heading = ActionsHeading}

\* The NEXT children of the first "Actions" child of node, if it has one.
NextOfFirstActions(node) ==
    IF ActionsChildren(node) = {} THEN <<>>
    ELSE LET first == node.children[Min(ActionsChildren(node))]
         IN  SubseqAt(first.children,
                      {k \in 1..Len(first.children) :
                          first.children[k].todo = "NEXT"})

\* The entries of the scanned directory that are directories.
SubdirEntries == {i \in 1..Len(fs.entries) : fs.entries[i].isdir}

----------------------------------------------------------------------------
(* C1.  When construction completes, projects is the concatenation, in the *)
(* order of the configured paths, of what each path's scan contributes: a  *)
(* directory scan for a path that names a directory, a project-list-file   *)
(* scan for any other; so no project of a later path precedes one of an    *)
(* earlier path.                                                           *)
C1_ConcatenationInPathOrder ==
    pc = "ready" =>
        /\ projects =
              Flatten([i \in 1..Len(paths) |->
                 IF IsDir(paths[i]) THEN ScanDirectory(paths[i]).projects
                 ELSE ScanProjectList(paths[i]).projects])
        /\ origin =
              Flatten([i \in 1..Len(paths) |->
                 IF IsDir(paths[i]) THEN ScanDirectory(paths[i]).origin
                 ELSE ScanProjectList(paths[i]).origin])

\* A list built from a project list and then a directory, each giving
\* projects.
C1_Witness ==
    /\ pc = "ready"
    /\ paths = <<FilePath, DirPath>>
    /\ Len(ScanProjectList(FilePath).projects) >= 2
    /\ Len(ScanDirectory(DirPath).projects) >= 1
    /\ projects[1] # projects[Len(projects)]

(* C2.  The actions of a project are exactly the children, with keyword    *)
(* exactly NEXT and in their original order, of the first immediate child  *)
(* of its root headed exactly "Actions"; none when there is no such child. *)
(* A later "Actions" child and any deeper nesting are ignored, also when   *)
(* the first "Actions" child has no NEXT child.                            *)
C2_ActionsOfFirstActionsChild ==
    \A i \in 1..Len(projects) :
        HasSourceNode(origin[i]) =>
            projects[i].actions = NextOfFirstActions(SourceNode(origin[i]))

\* A project whose first "Actions" child has children but no NEXT child and
\* whose second "Actions" child has one: it has no actions.
C2_Witness ==
    /\ Len(projects) = 1
    /\ LET node == SourceNode(origin[1])
       IN  /\ Len(node.children) = 2
           /\ node.children[1].heading = ActionsHeading
           /\ node.children[1].children = <<WaitZ, PlainW>>
           /\ node.children[2].heading = ActionsHeading
           /\ node.children[2].children = <<NextX, NextY>>
    /\ projects[1].actions = <<>>

(* C3.  The failure of one source's scan does not keep the other sources   *)
(* from being scanned: once the construction has ended, every project of   *)
(* every source whose scan does not fail is in projects.                   *)
C3_OtherSourcesStillScanned ==
    pc \in {"ready", "failed"} =>
        \A i \in 1..Len(paths) :
            ~ScanOf(paths[i]).raised =>
                \A k \in 1..Len(ScanOf(paths[i]).projects) :
                    \E j \in 1..Len(projects) :
                        /\ origin[j] = ScanOf(paths[i]).origin[k]
                        /\ projects[j] = ScanOf(paths[i]).projects[k]

(* C4.  A project-list-file scan fails when the parsed root has no         *)
(* children and when the root's first child has none: no such scan returns *)
(* normally.  The scan of paths[i] has returned normally once the loop is  *)
(* past it.                                                                *)
C4_MalformedProjectListFails ==
    \A i \in 1..Len(paths) :
        (i < idx /\ ~IsDir(paths[i])) =>
            /\ Load(paths[i]).children # <<>>
            /\ Load(paths[i]).children[1].children # <<>>

(* C5.  In a directory scan every immediate subdirectory whose .org file   *)
(* is not an existing regular file yields exactly one project, named by    *)
(* the subdirectory's basename followed by the path marker, with no        *)
(* actions; its file is not parsed, no error is raised, and the scan       *)
(* appends as many projects as there are immediate subdirectories.         *)
C5_MissingFileYieldsNamedProject ==
    (fs.listable /\ pc # "scan") =>
        /\ pc = "ready"
        /\ Len(projects) = Cardinality(SubdirEntries)
        /\ \A e \in SubdirEntries :
              ~fs.entries[e].org.exists =>
                 /\ EntryOrgPath(fs.entries[e]) \notin Range(loads)
                 /\ Cardinality({j \in 1..Len(projects) :
                        origin[j].path = EntryOrgPath(fs.entries[e])}) = 1
                 /\ \A j \in 1..Len(projects) :
                        origin[j].path = EntryOrgPath(fs.entries[e]) =>
                           /\ projects[j].name
                                 = fs.entries[e].name \o PathMarker
                           /\ projects[j].actions = <<>>

(* C6.  The projects of a directory scan are in the lexicographic order of *)
(* their file paths <subdir>/<basename(subdir)>.org, whatever the order of *)
(* the listing, with exactly one project for each immediate entry that is  *)
(* a directory and none for any other entry.                               *)
C6_DirectoryScanSorted ==
    pc = "ready" =>
        /\ \A i, j \in 1..Len(origin) :
              i < j => LexLess(origin[i].path, origin[j].path)
        /\ \A j \in 1..Len(origin) : origin[j].mode = "path"
        /\ Len(projects) = Cardinality(SubdirEntries)
        /\ \A e \in SubdirEntries :
              Cardinality({j \in 1..Len(origin) :
                  origin[j].path
                     = DirPath \o Sep \o fs.entries[e].name \o Sep
                          \o fs.entries[e].name \o OrgExt}) = 1

\* A listing that gives "a" before "a-", both directories, beside a plain
\* file: the scan gives a-/a-.org before a/a.org, as "-" sorts before "/".
C6_Witness ==
    /\ pc = "ready"
    /\ Len(fs.entries) = 3
    /\ fs.entries[1].name = Text_a /\ fs.entries[1].isdir
    /\ fs.entries[2].name = Text_aDash /\ fs.entries[2].isdir
    /\ ~fs.entries[3].isdir
    /\ Len(projects) = 2
    /\ origin[1].path = EntryOrgPath(fs.entries[2])
    /\ origin[2].path = EntryOrgPath(fs.entries[1])

(* C7.  The projects of a constructed list hold no duplicates: no resolved *)
(* source (a file path, or a subtree of a project list) is represented by  *)
(* more than one project, whatever the configured paths.                   *)
C7_NoDuplicateSources ==
    \A i, j \in 1..Len(projects) : origin[i] = origin[j] => i = j

\* Whether the source a project was built from gives it no action.
SourceIsActionless(o) ==
    \/ o.mode = "path" /\ ~IsFile(o.path)
    \/ /\ HasSourceNode(o)
       /\ LET node == SourceNode(o)
          IN  \/ ActionsChildren(node) = {}
              \/ LET first == node.children[Min(ActionsChildren(node))]
                 IN  \A k \in 1..Len(first.children) :
                        first.children[k].todo # "NEXT"

(* C8.  get_actionless_projects returns the projects that have no actions, *)
(* in construction order; and a project is among them exactly if its       *)
(* source has no "Actions" child, or its first "Actions" child has no NEXT *)
(* child, or (built from a path) its file is not an existing regular file. *)
C8_ActionlessSubsequence ==
    ret.op = "actionless" =>
        /\ ret.value =
              Ascending({i \in 1..Len(projects) : projects[i].actions = <<>>})
        /\ \A i \in 1..Len(projects) :
              (\E k \in 1..Len(ret.value) : ret.value[k] = i)
                 <=> SourceIsActionless(origin[i])

\* The query on a list of four projects returns three: one of a missing
\* file, one whose "Actions" child has no NEXT child, one without "Actions".
C8_Witness ==
    /\ ret.op = "actionless"
    /\ Len(projects) = 4
    /\ Len(ret.value) = 3
    /\ \E i, j, k \in Range(ret.value) :
          /\ origin[i].mode = "path" /\ ~IsFile(origin[i].path)
          /\ origin[j].mode = "node"
          /\ SourceNode(origin[j]).children = WithoutNext
          /\ origin[k].mode = "node"
          /\ SourceNode(origin[k]).children = WithoutActions

(* C9.  n_actions is the sum of len(actions) over the projects; print with *)
(* randomize (and any tag) shows every project exactly once and leaves the *)
(* projects, their actions, and so that sum, as they were.                 *)
C9_CountAndPermutation ==
    /\ ret.op = "n_actions" =>
          ret.value =
             Cardinality(UNION {{<<i, k>> : k \in 1..Len(projects[i].actions)} :
                                   i \in 1..Len(projects)})
    /\ ret.op = "print" =>
          /\ Len(ret.shown) = Len(projects)
          /\ \A i \in 1..Len(projects) :
                Cardinality({j \in 1..Len(ret.shown) : ret.shown[j] = i}) = 1

\* C9, the step: a call of print changes neither the projects nor their sum.
C9_PrintChangesNothing ==
    ret'.op = "print" =>
        /\ projects' = projects
        /\ origin' = origin
        /\ ReduceActions(projects', 1, 0) = ReduceActions(projects, 1, 0)

\* C9, whole: the count and the order shown hold in every state, and every
\* print step leaves the list as it was.
C9_CountInvariantUnderPrint ==
    [] C9_CountAndPermutation /\ [][C9_PrintChangesNothing]_vars

\* A randomized print of three projects with actions among them, in an
\* order that is not the construction order.
C9_Witness ==
    /\ ret.op = "print"
    /\ ret.randomize
    /\ ret.shown = <<3, 1, 2>>
    /\ ReduceActions(projects, 1, 0) >= 2
    /\ projects[1] # projects[3]

(* C10.  Every failure met while the list is built names the source path   *)
(* it comes from in the error it propagates.                               *)
C10_FailureNamesPath ==
    pc = "failed" => err.filename = paths[idx]

====
